---- MODULE Spec2Model ----
(***************************************************************************)
(* Model of src/app.py: the GSRTC Streamlit dashboard.  One execution of   *)
(* the script (a "run") is the sequence Load -> page body; the "Demand     *)
(* Forecasting" page is the pipeline Aggregate -> ADF -> Split -> Fit ->   *)
(* Evaluate -> Forecast -> Report, the "Upload Data" page appends to the   *)
(* CSV store.  Between runs the user changes a widget, which reruns the    *)
(* script from its first line.                                             *)
(*                                                                         *)
(* Abstractions (all of third-party library results, none of app.py):      *)
(*  - dates are day numbers; pd.Timedelta(days=1) is +1;                   *)
(*  - adfuller's p-value is an opaque choice, in hundredths (5 is 0.05);   *)
(*    adfuller raises on a series of fewer than 2 points and may raise on  *)
(*    any other (too short for the regression, constant input);            *)
(*  - a forecast value is named by the 1-based position of the series      *)
(*    step it predicts: a model fitted to nobs points forecasts the        *)
(*    positions nobs+1, nobs+2, ... (statsmodels forecasts from the end    *)
(*    of the sample the model was fitted to);                              *)
(*  - a CSV cell is [col, v]: the column the value was written for, and    *)
(*    its value; read_csv reads cells by position under the header.        *)
(***************************************************************************)
EXTENDS Integers, Sequences, FiniteSets, TLC

\* ------------------------------------------------------------- bounds
\* Largest number of rows of an initial store.
MaxInitRows == 5
\* Largest number of rows uploads add to the store.
MaxUploads == 2

\* ---------------------------------------------------- program constants
MinValue == 7
MaxValue == 90
DefaultValue == 30
\* 0.05 in hundredths
Alpha == 5

\* usecols of read_csv, which is df.columns
Schema ==
  <<"Date", "Route_ID", "Seats_Booked", "Fuel_Consumption_Liters",
    "Total_Seats", "Ticket_Price">>

Pages == {"Home", "Dataset", "EDA", "Demand Forecasting", "Upload Data"}

\* ------------------------------------------------------------ helpers
Range(s) == {s[i] : i \in 1..Len(s)}

Min2(a, b) == IF a < b THEN a ELSE b

\* s[:k]
Take(s, k) == [i \in 1..Min2(k, Len(s)) |-> s[i]]

\* s[k:]
Drop(s, k) == [i \in 1..(Len(s) - Min2(k, Len(s))) |-> s[i + k]]

Pos(s, c) == CHOOSE i \in 1..Len(s) : s[i] = c

SetMin(S) == CHOOSE x \in S : \A y \in S : x <= y

RECURSIVE SortAsc(_)
SortAsc(S) ==
  IF S = {} THEN <<>>
  ELSE LET m == SetMin(S) IN <<m>> \o SortAsc(S \ {m})

\* ------------------------------------------------------------- inputs
Cell(c, x) == [col |-> c, v |-> x]

\* One trip, written in the column order cols.
Row(cols, day, seats) ==
  [j \in 1..Len(cols) |->
     Cell(cols[j],
          CASE cols[j] = "Date" -> day
            [] cols[j] = "Seats_Booked" -> seats
            [] cols[j] = "Route_ID" -> 3
            [] OTHER -> 0)]

InitSeats == <<10, 12, 9, 15, 11, 14>>

\* n trips on the days 1..n
InitRows(n) == [i \in 1..n |-> Row(Schema, i, InitSeats[i])]

\* two trips on day 1, one on day 2, ...: the Aggregator has to sum
DupRows(n) == [i \in 1..n |-> Row(Schema, IF i = 1 THEN 1 ELSE i - 1, InitSeats[i])]

InitStores ==
  {[exists |-> FALSE, header |-> <<>>, rows |-> <<>>]}
    \cup {[exists |-> TRUE, header |-> Schema, rows |-> InitRows(n)] : n \in 0..MaxInitRows}
    \cup {[exists |-> TRUE, header |-> Schema, rows |-> DupRows(MaxInitRows)]}

\* Headers of the files a user uploads: the schema, the schema without
\* Ticket_Price, the schema with its first two columns exchanged, and the
\* schema with one more column.
UploadHeaders ==
  { Schema,
    <<"Date", "Route_ID", "Seats_Booked", "Fuel_Consumption_Liters", "Total_Seats">>,
    <<"Route_ID", "Date", "Seats_Booked", "Fuel_Consumption_Liters",
      "Total_Seats", "Ticket_Price">>,
    Schema \o <<"Delay">> }

UploadDays == {2, 9}

\* the seats cell of an uploaded trip (no initial trip has this number)
UploadCell == Cell("Seats_Booked", 4)

NoFile == [present |-> FALSE, columns |-> <<>>, rows |-> <<>>]

UploadFiles ==
  {[present |-> TRUE, columns |-> h, rows |-> <<Row(h, d, UploadCell.v)>>] :
      h \in UploadHeaders, d \in UploadDays}

\* Horizons a user may want; the claims' rejected examples are among them.
UserHorizons == {-5, 0, MinValue - 1, MinValue, MinValue + 1, DefaultValue, MaxValue, MaxValue + 1}

\* p-values of the ADF test, in hundredths: 0.05 and 0.06
PValues == {Alpha, Alpha + 1}

\* -------------------------------------------------------------- state
VARIABLES
  store,                \* the CSV file at DATA_PATH
  cache,                \* st.cache_resource of train_sarima: argument -> result
  fit_log,              \* the arguments of the executions of model.fit()
  page,                 \* sidebar radio
  slider_state,         \* the slider widget's value
  uploaded_file,        \* the file_uploader widget's value
  pc,                   \* position of the script
  screen,               \* what the run has rendered so far
  df,
  df_daily,
  p_value,
  train,
  test,
  sarima_result,
  test_forecast_mean,
  rmse,
  future_steps,
  sarima_forecast_next,
  future_dates,
  chart

session == <<page, slider_state, uploaded_file>>
locals ==
  <<df, df_daily, p_value, train, test, sarima_result, test_forecast_mean,
    rmse, future_steps, sarima_forecast_next, future_dates, chart>>
vars == <<store, cache, fit_log, session, pc, screen, locals>>

NoFrame == [columns |-> {}, Date |-> <<>>, Seats_Booked |-> <<>>, Seats_Booked_Diff |-> <<>>]
NoModel == [fitted |-> FALSE, endog |-> <<>>, nobs |-> 0]
NoRmse == [y_true |-> <<>>, y_pred |-> <<>>]
NoChart == [actual |-> <<>>, fitted |-> <<>>, test_forecast |-> <<>>, future |-> <<>>]

\* The script's variables before its first statement.
Fresh ==
  /\ df = <<>>
  /\ df_daily = NoFrame
  /\ p_value = -1
  /\ train = NoFrame
  /\ test = NoFrame
  /\ sarima_result = NoModel
  /\ test_forecast_mean = <<>>
  /\ rmse = NoRmse
  /\ future_steps = 0
  /\ sarima_forecast_next = <<>>
  /\ future_dates = <<>>
  /\ chart = NoChart

Init ==
  /\ store \in InitStores
  /\ cache = {}
  /\ fit_log = <<>>
  /\ page = "Home"
  /\ slider_state = DefaultValue
  /\ uploaded_file = NoFile
  /\ pc = "load"
  /\ screen = <<>>
  /\ Fresh

\* ------------------------------------------------ pure parts of app.py
\* pd.read_csv(DATA_PATH, usecols=[...]): each row, by column name; the
\* cell of column c is the one at c's position in the file's header.
read_csv(st) ==
  [i \in 1..Len(st.rows) |->
     [c \in Range(Schema) |-> st.rows[i][Pos(st.header, c)]]]

RECURSIVE SumSeats(_, _, _)
SumSeats(d, day, i) ==
  IF i = 0 THEN 0
  ELSE SumSeats(d, day, i - 1)
         + (IF d[i]["Date"].v = day THEN d[i]["Seats_Booked"].v ELSE 0)

\* df.groupby('Date').agg({'Seats_Booked': 'sum'}).reset_index().sort_values(by='Date')
groupby_sum(d) ==
  LET days == SortAsc({d[i]["Date"].v : i \in 1..Len(d)})
  IN [columns |-> {"Date", "Seats_Booked"},
      Date |-> days,
      Seats_Booked |-> [i \in 1..Len(days) |-> SumSeats(d, days[i], Len(d))],
      Seats_Booked_Diff |-> <<>>]

\* adfuller(series)[1]: what the call can do.
adf_outcomes(series) ==
  {[raised |-> TRUE, p |-> -1]}
    \cup (IF Len(series) < 2 THEN {}
          ELSE {[raised |-> FALSE, p |-> q] : q \in PValues})

\* series.diff().dropna(), assigned as a column: aligned on the index, the
\* first row has no value.
diff_column(series) ==
  [i \in 1..Len(series) |-> IF i = 1 THEN "NaN" ELSE series[i] - series[i - 1]]

\* a split that rounds 0.8*n to the nearest integer
train_size_rounded(n) == (n * 8 + 5) \div 10

\* int(len(df_daily) * 0.8): the float product truncated, which is
\* floor(8n/10) for every n up to 2,000,000 (checked by enumeration)
train_size_of(n) == (n * 8) \div 10

\* frame[:k] and frame[k:]
head_rows(f, k) ==
  [columns |-> f.columns,
   Date |-> Take(f.Date, k),
   Seats_Booked |-> Take(f.Seats_Booked, k),
   Seats_Booked_Diff |-> Take(f.Seats_Booked_Diff, k)]

tail_rows(f, k) ==
  [columns |-> f.columns,
   Date |-> Drop(f.Date, k),
   Seats_Booked |-> Drop(f.Seats_Booked, k),
   Seats_Booked_Diff |-> Drop(f.Seats_Booked_Diff, k)]

\* SARIMAX(train_data, order=(1,1,1), seasonal_order=(1,1,1,60)).fit()
sarimax_fit(train_data) ==
  [fitted |-> TRUE, endog |-> train_data, nobs |-> Len(train_data)]

\* result.get_forecast(steps).predicted_mean and result.forecast(steps):
\* the steps positions after the end of the fitted sample.
forecast(result, steps) == [k \in 1..steps |-> result.nobs + k]

\* result.fittedvalues: one value for each position of the fitted sample
fittedvalues(result) == [k \in 1..result.nobs |-> k]

\* train_sarima without its cache decorator
cache_hit_never(key) == FALSE

\* st.cache_resource: the entry stored for this argument, if any
cache_hit(key) == \E e \in cache : e.key = key

cache_get(key) == (CHOOSE e \in cache : e.key = key).value

\* dates generated from the last known date itself
future_start_last_date(last_date) == last_date

\* the first of the generated dates
future_start(last_date) == last_date + 1

\* pd.date_range(start=..., periods=...)
date_range(start, periods) == [k \in 1..periods |-> start + (k - 1)]

\* ax.plot(x, y)
plot(x, y) == [i \in 1..Len(x) |-> <<x[i], y[i]>>]

\* an upload check that only refuses unknown columns
columns_match_subset(new_columns) == Range(new_columns) \subseteq Range(Schema)

\* set(new_data.columns) == set(df.columns)
columns_match(new_columns) == Range(new_columns) = Range(Schema)

\* a loader without the df.empty check
is_empty_unchecked(st) == FALSE

\* df.empty
is_empty(st) == Len(st.rows) = 0

\* a horizon input without min_value and max_value
slider_values_unbounded == UserHorizons

\* st.slider(min_value=7, max_value=90, value=30): the values the widget
\* lets a user set
slider_values == {h \in UserHorizons : MinValue <= h /\ h <= MaxValue}

\* rows of the store that came from uploads
Uploaded(st) ==
  Cardinality({i \in 1..Len(st.rows) :
                 \E j \in 1..Len(st.rows[i]) :
                    st.rows[i][j] = UploadCell})

\* ------------------------------------------------------------ the run
Last(s) == s[Len(s)]

Show(items) == screen' = screen \o items

\* lines 12-23
Load ==
  /\ pc = "load"
  /\ IF ~store.exists
       THEN /\ Show(<<"error: Dataset not found">>)
            /\ pc' = "stopped"
            /\ UNCHANGED df
       ELSE /\ df' = read_csv(store)
            /\ IF is_empty(store)
                 THEN /\ Show(<<"error: Dataset is empty">>)
                      /\ pc' = "stopped"
                 ELSE /\ Show(<<"sidebar">>)
                      /\ pc' = "page"
  /\ UNCHANGED <<store, cache, fit_log, session, df_daily, p_value, train, test,
                 sarima_result, test_forecast_mean, rmse, future_steps,
                 sarima_forecast_next, future_dates, chart>>

\* lines 30-47
Home ==
  /\ pc = "page" /\ page = "Home"
  /\ Show(<<"title: Home", "problem statement">>)
  /\ pc' = "done"
  /\ UNCHANGED <<store, cache, fit_log, session, locals>>

\* lines 50-62
Dataset ==
  /\ pc = "page" /\ page = "Dataset"
  /\ Show(<<"title: Dataset", "dataframe", "download_button">>)
  /\ pc' = "done"
  /\ UNCHANGED <<store, cache, fit_log, session, locals>>

\* lines 65-75
EDA ==
  /\ pc = "page" /\ page = "EDA"
  /\ Show(<<"title: EDA", "images">>)
  /\ pc' = "done"
  /\ UNCHANGED <<store, cache, fit_log, session, locals>>

\* lines 78-83
Aggregate ==
  /\ pc = "page" /\ page = "Demand Forecasting"
  /\ Show(<<"title: Demand Forecasting">>)
  /\ df_daily' = groupby_sum(df)
  /\ pc' = "stationarity"
  /\ UNCHANGED <<store, cache, fit_log, session, df, p_value, train, test,
                 sarima_result, test_forecast_mean, rmse, future_steps,
                 sarima_forecast_next, future_dates, chart>>

\* lines 85-96
CheckStationarity ==
  /\ pc = "stationarity"
  /\ \E o \in adf_outcomes(df_daily.Seats_Booked) :
       IF o.raised
         THEN /\ Show(<<"exception: ValueError">>)
              /\ pc' = "stopped"
              /\ UNCHANGED <<p_value, df_daily>>
         ELSE /\ p_value' = o.p
              /\ pc' = "split"
              /\ IF o.p > Alpha
                   THEN /\ df_daily' =
                             [df_daily EXCEPT
                                !.columns = @ \cup {"Seats_Booked_Diff"},
                                !.Seats_Booked_Diff = diff_column(df_daily.Seats_Booked)]
                        /\ Show(<<"Data is NOT stationary. Applied differencing.">>)
                   ELSE /\ UNCHANGED df_daily
                        /\ Show(<<"Data is stationary. No differencing applied.">>)
  /\ UNCHANGED <<store, cache, fit_log, session, df, train, test,
                 sarima_result, test_forecast_mean, rmse, future_steps,
                 sarima_forecast_next, future_dates, chart>>

\* lines 98-100
Split ==
  /\ pc = "split"
  /\ LET train_size == train_size_of(Len(df_daily.Date))
     IN /\ train' = head_rows(df_daily, train_size)
        /\ test' = tail_rows(df_daily, train_size)
  /\ pc' = "fit"
  /\ UNCHANGED <<store, cache, fit_log, session, screen, df, df_daily, p_value,
                 sarima_result, test_forecast_mean, rmse, future_steps,
                 sarima_forecast_next, future_dates, chart>>

\* lines 102-108
Fit ==
  /\ pc = "fit"
  /\ LET train_data == train.Seats_Booked
     IN IF cache_hit(train_data)
          THEN /\ sarima_result' = cache_get(train_data)
               /\ UNCHANGED <<cache, fit_log>>
          ELSE /\ sarima_result' = sarimax_fit(train_data)
               /\ cache' = cache \cup {[key |-> train_data, value |-> sarima_result']}
               /\ fit_log' = Append(fit_log, train_data)
  /\ pc' = "evaluate"
  /\ UNCHANGED <<store, session, screen, df, df_daily, p_value, train, test,
                 test_forecast_mean, rmse, future_steps,
                 sarima_forecast_next, future_dates, chart>>

\* lines 110-116
Evaluate ==
  /\ pc = "evaluate"
  /\ test_forecast_mean' = forecast(sarima_result, Len(test.Date))
  /\ rmse' = [y_true |-> test.Seats_Booked, y_pred |-> test_forecast_mean']
  /\ Show(<<"SARIMA Model RMSE">>)
  /\ pc' = "forecast"
  /\ UNCHANGED <<store, cache, fit_log, session, df, df_daily, p_value, train, test,
                 sarima_result, future_steps,
                 sarima_forecast_next, future_dates, chart>>

\* lines 118-125
Forecast ==
  /\ pc = "forecast"
  /\ future_steps' = slider_state
  /\ Show(<<"slider">>)
  /\ sarima_forecast_next' = forecast(sarima_result, future_steps')
  /\ future_dates' = date_range(future_start(Last(df_daily.Date)), future_steps')
  /\ pc' = "report"
  /\ UNCHANGED <<store, cache, fit_log, session, df, df_daily, p_value, train, test,
                 sarima_result, test_forecast_mean, rmse, chart>>

\* lines 127-148
Report ==
  /\ pc = "report"
  /\ chart' =
       [actual |-> plot(df_daily.Date, df_daily.Seats_Booked),
        fitted |-> plot(Take(df_daily.Date, Len(train.Date)), fittedvalues(sarima_result)),
        test_forecast |-> plot(Drop(df_daily.Date, Len(train.Date)), test_forecast_mean),
        future |-> plot(future_dates, sarima_forecast_next)]
  /\ Show(<<"pyplot", "Highest Predicted Demand", "Lowest Predicted Demand">>)
  /\ pc' = "done"
  /\ UNCHANGED <<store, cache, fit_log, session, df, df_daily, p_value, train, test,
                 sarima_result, test_forecast_mean, rmse, future_steps,
                 sarima_forecast_next, future_dates>>

\* lines 150-160
Upload ==
  /\ pc = "page" /\ page = "Upload Data"
  /\ IF ~uploaded_file.present
       THEN /\ Show(<<"title: Upload", "file_uploader">>)
            /\ UNCHANGED store
       ELSE IF columns_match(uploaded_file.columns)
         THEN /\ store' = [store EXCEPT !.rows = @ \o uploaded_file.rows]
              /\ Show(<<"title: Upload", "file_uploader",
                        "success: Data successfully uploaded and merged">>)
         ELSE /\ UNCHANGED store
              /\ Show(<<"title: Upload", "file_uploader", "error: Column mismatch">>)
  /\ pc' = "done"
  /\ UNCHANGED <<cache, fit_log, session, locals>>

\* ------------------------------------------------------------ the user
\* A widget change or a reload starts the script again from line 1.
Rerun ==
  /\ pc' = "load"
  /\ screen' = <<>>
  /\ df' = <<>>
  /\ df_daily' = NoFrame
  /\ p_value' = -1
  /\ train' = NoFrame
  /\ test' = NoFrame
  /\ sarima_result' = NoModel
  /\ test_forecast_mean' = <<>>
  /\ rmse' = NoRmse
  /\ future_steps' = 0
  /\ sarima_forecast_next' = <<>>
  /\ future_dates' = <<>>
  /\ chart' = NoChart

Idle == pc \in {"done", "stopped"}

Rendered(w) == \E i \in 1..Len(screen) : screen[i] = w

\* The sidebar radio.  A widget that a run does not render loses its
\* value: the slider and the uploader start again from their defaults.
SelectPage(p) ==
  /\ Idle /\ Rendered("sidebar")
  /\ p # page
  /\ page' = p
  /\ slider_state' = DefaultValue
  /\ uploaded_file' = NoFile
  /\ Rerun
  /\ UNCHANGED <<store, cache, fit_log>>

MoveSlider(h) ==
  /\ Idle /\ Rendered("slider")
  /\ h # slider_state
  /\ slider_state' = h
  /\ Rerun
  /\ UNCHANGED <<store, cache, fit_log, page, uploaded_file>>

ChooseFile(f) ==
  /\ Idle /\ Rendered("file_uploader")
  /\ columns_match(f.columns) => Uploaded(store) + Len(f.rows) <= MaxUploads
  /\ uploaded_file' = f
  /\ Rerun
  /\ UNCHANGED <<store, cache, fit_log, page, slider_state>>

\* The browser reloads the page: a new session of the same process.
Reload ==
  /\ Idle
  /\ page' = "Home"
  /\ slider_state' = DefaultValue
  /\ uploaded_file' = NoFile
  /\ Rerun
  /\ UNCHANGED <<store, cache, fit_log>>

Next ==
  \/ Load
  \/ Home
  \/ Dataset
  \/ EDA
  \/ Aggregate
  \/ CheckStationarity
  \/ Split
  \/ Fit
  \/ Evaluate
  \/ Forecast
  \/ Report
  \/ Upload
  \/ \E p \in Pages : SelectPage(p)
  \/ \E h \in slider_values : MoveSlider(h)
  \/ \E f \in UploadFiles : ChooseFile(f)
  \/ Reload

Spec == Init /\ [][Next]_vars

\* ------------------------------------------------------------- claims
Forecasting == page = "Demand Forecasting"

\* the run is past the Splitter
PastSplit == Forecasting /\ pc \in {"fit", "evaluate", "forecast", "report", "done"}

\* the run has produced its evaluation forecast
PastEvaluate == Forecasting /\ pc \in {"forecast", "report", "done"}

\* the run has produced its future forecast
PastForecast == Forecasting /\ pc \in {"report", "done"}

\* value[i] - value[i-1], without the first, undefined entry
FirstDifference(s) == [i \in 1..(Len(s) - 1) |-> s[i + 1] - s[i]]

\* C1: when the ADF p-value is > 0.05 the series the model is fitted to and
\* evaluated against (train then test) is the first difference of the daily
\* series, of length n-1; otherwise it is the daily series itself.
C1_WorkingSeriesIsDifferenced ==
  PastEvaluate =>
    sarima_result.endog \o rmse.y_true =
      (IF p_value > Alpha THEN FirstDifference(df_daily.Seats_Booked)
       ELSE df_daily.Seats_Booked)

\* C2: the k-th future forecast value is the model's prediction for position
\* n+k of the series, n = |train| + |test|, and it is that value which is
\* charted against the date last_date + k.
C2_FutureForecastStartsAfterFullSeries ==
  (Forecasting /\ pc = "done") =>
    LET n == Len(train.Date) + Len(test.Date)
    IN \A k \in 1..future_steps :
         /\ sarima_forecast_next[k] = n + k
         /\ chart.future[k] = <<Last(df_daily.Date) + k, n + k>>

\* C3: the future forecast has exactly h entries and h dates; the first date
\* is the day after the last date of the daily series and each later date is
\* the day after the one before it.
C3_FutureDatesAreTheNextDays ==
  PastForecast =>
    /\ Len(sarima_forecast_next) = slider_state
    /\ Len(future_dates) = slider_state
    /\ \A k \in 1..Len(future_dates) :
         future_dates[k] = (IF k = 1 THEN Last(df_daily.Date) ELSE future_dates[k - 1]) + 1

\* the scenario of the specification: four days ending on day 4, horizon 7
C3_Witness ==
  /\ Forecasting /\ pc = "done"
  /\ df_daily.Date = <<1, 2, 3, 4>>
  /\ df_daily.Seats_Booked = <<10, 12, 9, 15>>
  /\ Len(train.Date) = 3 /\ Len(test.Date) = 1
  /\ future_steps = 7
  /\ Len(future_dates) = 7 /\ future_dates[1] = 5 /\ future_dates[7] = 11

\* C4: for n >= 2 the Splitter yields train = the first floor(0.8 n) entries
\* and test = the other n - floor(0.8 n): both non-empty, disjoint, in the
\* series' order, and train followed by test is the series.
C4_SplitPartitionsTheSeries ==
  (PastSplit /\ Len(df_daily.Date) >= 2) =>
    LET n == Len(df_daily.Date)
    IN /\ Len(train.Date) = (4 * n) \div 5
       /\ Len(test.Date) = n - (4 * n) \div 5
       /\ Len(train.Date) >= 1 /\ Len(test.Date) >= 1
       /\ train.Date \o test.Date = df_daily.Date
       /\ train.Seats_Booked \o test.Seats_Booked = df_daily.Seats_Booked
       /\ Len(train.Seats_Booked) = Len(train.Date)
       /\ Len(test.Seats_Booked) = Len(test.Date)
       /\ \A i \in 1..Len(train.Date) : \A j \in 1..Len(test.Date) :
            train.Date[i] < test.Date[j]

C4_Witness ==
  /\ Forecasting /\ pc = "fit"
  /\ Len(df_daily.Date) = 5
  /\ train.Seats_Booked = <<10, 12, 9, 15>>
  /\ test.Seats_Booked = <<11>>

\* C5: a series of length n < 2 (an empty train or test window) makes the
\* Splitter fail with InsufficientDataError: the run stops with that error.
C5_ShortSeriesIsRejectedBySplitter ==
  (Forecasting /\ pc \notin {"load", "page", "stationarity"} /\ Len(df_daily.Date) < 2) =>
    (pc = "stopped" /\ Rendered("error: InsufficientDataError"))

\* C6: whenever a future forecast has been produced its horizon is the
\* requested value and lies in 7..90; no request outside 7..90 is accepted.
C6_HorizonIsRequestedAndInRange ==
  /\ 7 <= slider_state /\ slider_state <= 90
  /\ PastForecast =>
       /\ future_steps = slider_state
       /\ Len(sarima_forecast_next) = future_steps
       /\ 7 <= future_steps /\ future_steps <= 90

C6_Witness ==
  /\ Forecasting /\ pc = "done"
  /\ slider_state = 90
  /\ Len(sarima_forecast_next) = 90
  /\ Len(chart.future) = 90

C7_FittedWindowIsNotRefitted ==
  (pc = "fit" /\ (\E i \in 1..Len(fit_log) : fit_log[i] = train.Seats_Booked))
    => (fit_log' = fit_log /\ (sarima_result').endog = train.Seats_Booked)

C7_ModelKeptWithinRun ==
  (pc \in {"evaluate", "forecast", "report"})
    => (fit_log' = fit_log /\ sarima_result' = sarima_result)

\* C7: the fit is executed at most once for each distinct training window; a
\* run whose training window was fitted before performs no fit and gets the
\* model of that window; and between the fit and the report of one run the
\* model is neither refitted nor replaced.
C7_FitOncePerTrainingWindow ==
  /\ [](\A i, j \in 1..Len(fit_log) : fit_log[i] = fit_log[j] => i = j)
  /\ [][C7_FittedWindowIsNotRefitted]_vars
  /\ [][C7_ModelKeptWithinRun]_vars

\* a second request on the same data with another horizon: one fit in all
C7_Witness ==
  /\ Forecasting /\ pc = "done"
  /\ future_steps # DefaultValue
  /\ fit_log = <<train.Seats_Booked>>
  /\ sarima_result.endog = train.Seats_Booked
  /\ Len(test_forecast_mean) = Len(test.Date)
  /\ Len(sarima_forecast_next) = future_steps

\* C8: the store changes only by appending the rows of an upload whose
\* column set equals the schema; an upload with another column set leaves
\* the store as it was and shows the column-mismatch error.
C8_MismatchedUploadLeavesStore ==
  [][/\ (store' # store) =>
          /\ pc = "page" /\ page = "Upload Data" /\ uploaded_file.present
          /\ Range(uploaded_file.columns) = Range(Schema)
          /\ store' = [store EXCEPT !.rows = @ \o uploaded_file.rows]
     /\ (pc = "page" /\ page = "Upload Data" /\ uploaded_file.present
           /\ Range(uploaded_file.columns) # Range(Schema)) =>
          /\ store' = store
          /\ screen'[Len(screen')] = "error: Column mismatch"]_vars

\* a file without Ticket_Price has been refused
C8_Witness ==
  /\ page = "Upload Data" /\ pc = "done"
  /\ uploaded_file.present
  /\ Range(uploaded_file.columns) = Range(Schema) \ {"Ticket_Price"}
  /\ Rendered("error: Column mismatch")
  /\ store \in InitStores

\* C9: with the store missing or without rows the run reports the error and
\* stops at Load: no later stage has run and nothing has been computed.
C9_MissingStoreStopsAtLoad ==
  (~store.exists \/ Len(store.rows) = 0) =>
    /\ pc \in {"load", "stopped"}
    /\ pc = "stopped" =>
         screen = (IF store.exists THEN <<"error: Dataset is empty">>
                   ELSE <<"error: Dataset not found">>)
    /\ df_daily = NoFrame /\ p_value = -1
    /\ train = NoFrame /\ test = NoFrame
    /\ ~sarima_result.fitted /\ fit_log = <<>> /\ cache = {}
    /\ rmse = NoRmse /\ sarima_forecast_next = <<>> /\ chart = NoChart

C9_Witness ==
  /\ pc = "stopped"
  /\ store.exists /\ Len(store.rows) = 0
  /\ screen = <<"error: Dataset is empty">>

\* C10: every row of the store has its values under the columns of the
\* store's header.
C10_RowsFollowTheHeader ==
  store.exists =>
    \A i \in 1..Len(store.rows) :
      /\ Len(store.rows[i]) = Len(store.header)
      /\ \A j \in 1..Len(store.header) : store.rows[i][j].col = store.header[j]

====
